---- MODULE Spec2Model ----
\* Model of collectd_transmission (src/collectd_transmission/__init__.py):
\* the collectd plugin that polls a Transmission daemon and dispatches
\* gauge samples.  Python strings that the code transforms or formats are
\* sequences of one-character strings; dictionary keys of `data` are strings.
EXTENDS Integers, Sequences, FiniteSets, TLC

\* ---------------------------------------------------------------- bounds
\* At most this many (category, metric) fields are absent from a snapshot.
MaxMissing == 1
\* At most this many torrents are in a torrent list.
MaxTorrents == 1
\* At most this many trackerStats entries per torrent.
MaxTrackers == 1
\* At most this many children in one configuration block.
MaxChildren == 1
\* get_announce_stats applied on its own: at most this many torrents, each
\* with at most this many trackerStats entries.
AnnounceMaxTorrents == 3
AnnounceMaxTrackers == 2
\* snake_case applied on its own: strings of at most this many characters.
SnakeMaxLen == 4

\* ---------------------------------------------------------------- text
UpperCase ==
    <<"A","B","C","D","E","F","G","H","I","J","K","L","M",
      "N","O","P","Q","R","S","T","U","V","W","X","Y","Z">>
LowerCase ==
    <<"a","b","c","d","e","f","g","h","i","j","k","l","m",
      "n","o","p","q","r","s","t","u","v","w","x","y","z">>
Digits ==
    <<"0","1","2","3","4","5","6","7","8","9">>

\* re character class [A-Z]
IsUpper(c) == \E i \in 1..Len(UpperCase) : UpperCase[i] = c

\* str.lower() on one character
ToLower(c) ==
    IF IsUpper(c)
    THEN LowerCase[CHOOSE i \in 1..Len(UpperCase) : UpperCase[i] = c]
    ELSE c

\* str.lower()
Lower(s) == [i \in 1..Len(s) |-> ToLower(s[i])]

\* re.sub('([A-Z]+)', r'_\1', s): every maximal run of capitals gets one '_'
\* in front of it.  Position i starts a run when s[i] is a capital and s[i-1]
\* is not.
RECURSIVE SubUpperRuns(_, _)
SubUpperRuns(s, i) ==
    IF i > Len(s) THEN <<>>
    ELSE (IF IsUpper(s[i]) /\ (i = 1 \/ ~IsUpper(s[i - 1]))
          THEN <<"_", s[i]>>
          ELSE <<s[i]>>) \o SubUpperRuns(s, i + 1)

\* Faulty variant of snake_case: re.sub('([A-Z])', ...), a '_' in front of
\* every capital.
RECURSIVE SubEachUpper(_, _)
SubEachUpper(s, i) ==
    IF i > Len(s) THEN <<>>
    ELSE (IF IsUpper(s[i]) THEN <<"_", s[i]>> ELSE <<s[i]>>)
         \o SubEachUpper(s, i + 1)

snake_case_each(s) == Lower(SubEachUpper(s, 1))

snake_case(s) == Lower(SubUpperRuns(s, 1))

\* ---------------------------------------------------------------- catalog
PLUGIN_NAME == "transmission"

general == <<"g","e","n","e","r","a","l">>
cumulative == <<"c","u","m","u","l","a","t","i","v","e">>
current == <<"c","u","r","r","e","n","t">>

activeTorrentCount ==
    <<"a","c","t","i","v","e","T","o","r","r","e","n","t","C","o","u","n","t">>
torrentCount ==
    <<"t","o","r","r","e","n","t","C","o","u","n","t">>
downloadSpeed ==
    <<"d","o","w","n","l","o","a","d","S","p","e","e","d">>
uploadSpeed ==
    <<"u","p","l","o","a","d","S","p","e","e","d">>
pausedTorrentCount ==
    <<"p","a","u","s","e","d","T","o","r","r","e","n","t","C","o","u","n","t">>
blocklist_size ==
    <<"b","l","o","c","k","l","i","s","t","_","s","i","z","e">>
downloadedBytes ==
    <<"d","o","w","n","l","o","a","d","e","d","B","y","t","e","s">>
filesAdded ==
    <<"f","i","l","e","s","A","d","d","e","d">>
uploadedBytes ==
    <<"u","p","l","o","a","d","e","d","B","y","t","e","s">>
secondsActive ==
    <<"s","e","c","o","n","d","s","A","c","t","i","v","e">>
sessionCount ==
    <<"s","e","s","s","i","o","n","C","o","u","n","t">>

Categories == {general, cumulative, current}

\* the module-level dict `metrics`
metrics ==
    [c \in Categories |->
        IF c = general
        THEN <<activeTorrentCount, torrentCount, downloadSpeed, uploadSpeed,
               pausedTorrentCount, blocklist_size>>
        ELSE <<downloadedBytes, filesAdded, uploadedBytes, secondsActive,
               sessionCount>>]

\* the keys of the dict literal in get_announce_stats
succeeded == <<"s","u","c","c","e","e","d","e","d">>
failed == <<"f","a","i","l","e","d">>
announce == <<"a","n","n","o","u","n","c","e">>

\* Faulty variant of CatalogTypeInstance: the category prefix is left out.
BareTypeInstance(category, metric) == snake_case(metric)

\* '%s.%s' % (category, snake_case(metric))
CatalogTypeInstance(category, metric) ==
    category \o <<".">> \o snake_case(metric)

\* 'announce.%s' % (name)
AnnounceTypeInstance(name) == announce \o <<".">> \o name

\* ---------------------------------------------------------------- values
\* Python values stored in `data`: a configuration string, None, or a
\* transmissionrpc.Client object (id tells two Client objects apart).
NoneValue == [type |-> "NoneType", s |-> <<>>, id |-> 0]
Str(s) == [type |-> "str", s |-> s, id |-> 0]
ClientObject(n) == [type |-> "Client", s |-> <<>>, id |-> n]

\* data[key] = value
Put(d, key, value) ==
    [k \in DOMAIN d \cup {key} |-> IF k = key THEN value ELSE d[k]]

\* data.get(key, default) for string-valued entries
Get(d, key, default) == IF key \in DOMAIN d THEN d[key].s ELSE default

\* the Client objects referenced from `data`
HeldIds(d) ==
    IF "client" \in DOMAIN d /\ d["client"].type = "Client"
    THEN {d["client"].id}
    ELSE {}

\* identity of a newly constructed object: different from every object the
\* running operation has seen
Fresh(used) == CHOOSE n \in 1..(Cardinality(used) + 1) :
    n \notin used /\ \A m \in 1..(n - 1) : m \in used

IsDigit(c) == \E i \in 1..Len(Digits) : Digits[i] = c
DigitValue(c) == (CHOOSE i \in 1..Len(Digits) : Digits[i] = c) - 1

RECURSIVE DecimalValue(_)
DecimalValue(s) ==
    IF s = <<>> THEN 0
    ELSE 10 * DecimalValue(SubSeq(s, 1, Len(s) - 1)) + DigitValue(s[Len(s)])

\* int(s) for a str: an optional sign and decimal digits, else ValueError
ParseInt(s) ==
    LET signed == s # <<>> /\ s[1] \in {"+", "-"}
        body == IF signed THEN Tail(s) ELSE s
    IN  IF body # <<>> /\ \A i \in 1..Len(body) : IsDigit(body[i])
        THEN [raised |-> "none",
              value |-> IF signed /\ s[1] = "-"
                        THEN 0 - DecimalValue(body) ELSE DecimalValue(body)]
        ELSE [raised |-> "ValueError", value |-> 0]

DefaultAddress == "http://localhost:9091/transmission/rpc"
DefaultTimeout == <<"5">>

\* one entry of the record of calls an operation makes
Event(call, h, result) == [call |-> call, h |-> h, result |-> result]

\* ---------------------------------------------------------------- lifecycle
\* shutdown(): data['client'] = None
Shutdown(d) == Put(d, "client", NoneValue)

\* Faulty variant of Initialize: a failed connect still leaves an object in
\* data['client'].
InitializeStoresAnyway(d, used, connected) ==
    IF "username" \notin DOMAIN d \/ "password" \notin DOMAIN d
    THEN [data |-> d, raised |-> "KeyError", calls |-> <<>>]
    ELSE IF ParseInt(Get(d, "timeout", DefaultTimeout)).raised # "none"
    THEN [data |-> d, raised |-> "ValueError", calls |-> <<>>]
    ELSE LET c == ClientObject(Fresh(used))
         IN  [data |-> Put(d, "client", c), raised |-> "none",
              calls |-> <<Event("Client", IF connected THEN c.id ELSE 0,
                                IF connected THEN "ok" ELSE "TransmissionError")>>]

\* Faulty variant of Initialize: the TransmissionError of the constructor is
\* not caught.
InitializeUncaught(d, used, connected) ==
    IF "username" \notin DOMAIN d \/ "password" \notin DOMAIN d
    THEN [data |-> d, raised |-> "KeyError", calls |-> <<>>]
    ELSE IF ParseInt(Get(d, "timeout", DefaultTimeout)).raised # "none"
    THEN [data |-> d, raised |-> "ValueError", calls |-> <<>>]
    ELSE IF connected
    THEN LET c == ClientObject(Fresh(used))
         IN  [data |-> Put(d, "client", c), raised |-> "none",
              calls |-> <<Event("Client", c.id, "ok")>>]
    ELSE [data |-> d, raised |-> "TransmissionError",
          calls |-> <<Event("Client", 0, "TransmissionError")>>]

\* Faulty variant of Initialize: the credentials are read with data.get, so a
\* missing one no longer stops the connect.
InitializeDefaultCredentials(d, used, connected) ==
    IF ParseInt(Get(d, "timeout", DefaultTimeout)).raised # "none"
    THEN [data |-> d, raised |-> "ValueError", calls |-> <<>>]
    ELSE IF connected
    THEN LET c == ClientObject(Fresh(used))
         IN  [data |-> Put(d, "client", c), raised |-> "none",
              calls |-> <<Event("Client", c.id, "ok")>>]
    ELSE [data |-> Put(d, "client", NoneValue), raised |-> "none",
          calls |-> <<Event("Client", 0, "TransmissionError")>>]

\* initialize(): `connected` is the outcome of the Client constructor
\* (TRUE: returns a Client, FALSE: raises TransmissionError); `used` holds the
\* Client objects that exist already.
Initialize(d, used, connected) ==
    IF "username" \notin DOMAIN d \/ "password" \notin DOMAIN d
    THEN [data |-> d, raised |-> "KeyError", calls |-> <<>>]
    ELSE
    LET address == Get(d, "address", DefaultAddress)
        timeout == ParseInt(Get(d, "timeout", DefaultTimeout))
    IN  IF timeout.raised # "none"
        THEN [data |-> d, raised |-> timeout.raised, calls |-> <<>>]
        ELSE IF connected
        THEN LET c == ClientObject(Fresh(used))
             IN  [data |-> Put(d, "client", c), raised |-> "none",
                  calls |-> <<Event("Client", c.id, "ok")>>]
        ELSE [data |-> Put(d, "client", NoneValue), raised |-> "none",
              calls |-> <<Event("Client", 0, "TransmissionError")>>]

\* ---------------------------------------------------------------- snapshots
cumulative_stats ==
    <<"c","u","m","u","l","a","t","i","v","e","_","s","t","a","t","s">>
current_stats ==
    <<"c","u","r","r","e","n","t","_","s","t","a","t","s">>

\* all (category, metric) pairs of the catalog
CatalogFields ==
    UNION {{<<c, metrics[c][i]>> : i \in 1..Len(metrics[c])} : c \in Categories}

\* the number the daemon reports for a field
StatValue(category, key) ==
    LET i == CHOOSE j \in 1..Len(metrics[category]) : metrics[category][j] = key
    IN  IF category = general THEN 100 + i
        ELSE IF category = cumulative THEN 200 + i
        ELSE 300 + i

\* the mapping of one category's metrics, without the fields in `absent`
StatsDict(category, absent) ==
    [k \in {metrics[category][i] : i \in 1..Len(metrics[category])}
           \ {f[2] : f \in {g \in absent : g[1] = category}}
        |-> StatValue(category, k)]

\* transmissionrpc.__version__ as StrictVersion parses it: (major, minor)
\* StrictVersion(a) >= StrictVersion(b)
VersionGE(a, b) == a[1] > b[1] \/ (a[1] = b[1] /\ a[2] >= b[2])

\* StrictVersion('0.9')
ModernSince == <<0, 9>>

\* What session_stats() returns under library version `ver`: from 0.9 on the
\* statistics are attributes of the object, before they are entries of its
\* `fields` dictionary.
Snapshot(ver, absent) ==
    IF VersionGE(ver, ModernSince)
    THEN [cumulative_stats |-> StatsDict(cumulative, absent),
          current_stats |-> StatsDict(current, absent),
          attributes |-> StatsDict(general, absent)]
    ELSE [fields |->
            [k \in DOMAIN StatsDict(general, absent)
                   \cup {cumulative_stats, current_stats} |->
                IF k = cumulative_stats THEN StatsDict(cumulative, absent)
                ELSE IF k = current_stats THEN StatsDict(current, absent)
                ELSE StatsDict(general, absent)[k]]]

Found(v) == [raised |-> "none", value |-> v]
NotFound(error) == [raised |-> error, value |-> 0]

\* d[key], raising KeyError
Subscript(d, key) == IF key \in DOMAIN d THEN Found(d[key]) ELSE NotFound("KeyError")

\* getattr(obj, key), raising AttributeError
GetAttr(attrs, key) ==
    IF key \in DOMAIN attrs THEN Found(attrs[key]) ELSE NotFound("AttributeError")

\* Faulty variant of field_getter: before 0.9 the 'current' branch reads
\* fields['cumulative_stats'].
field_getter_swapped(ver, stats, key, category) ==
    IF VersionGE(ver, ModernSince)
    THEN IF category = cumulative THEN Subscript(stats.cumulative_stats, key)
         ELSE IF category = current THEN Subscript(stats.current_stats, key)
         ELSE GetAttr(stats.attributes, key)
    ELSE IF category \in {cumulative, current}
         THEN Subscript(stats.fields[cumulative_stats], key)
         ELSE Subscript(stats.fields, key)

field_getter(ver, stats, key, category) ==
    IF VersionGE(ver, ModernSince)
    THEN IF category = cumulative THEN Subscript(stats.cumulative_stats, key)
         ELSE IF category = current THEN Subscript(stats.current_stats, key)
         ELSE GetAttr(stats.attributes, key)
    ELSE IF category = cumulative
         THEN Subscript(stats.fields[cumulative_stats], key)
         ELSE IF category = current
         THEN Subscript(stats.fields[current_stats], key)
         ELSE Subscript(stats.fields, key)

\* ---------------------------------------------------------------- state
VARIABLES
    data,            \* the module-level dict `data`
    client_version,  \* transmissionrpc.__version__, parsed
    metrics_items,   \* the order in which metrics.items() yields the categories
    announce_items,  \* the order in which announce_stats.items() yields the names
    op,              \* the callback that ran last
    raised,          \* the exception it left with, or "none"
    calls,           \* what it called, in order: shutdown, Client, the RPCs
    dispatched,      \* the samples it dispatched, in order
    torrents,        \* the torrent list it fetched
    reinit,          \* how far the callbacks that ran last are into the sequence
                     \* initialize(); shutdown(); initialize(): 0 to 3
    input,           \* the argument of a function applied on its own
    output           \* <<>> until it is applied, then <<what it returned>>

vars == <<data, client_version, metrics_items, announce_items, op, raised,
          calls, dispatched, torrents, reinit, input, output>>

\* ---------------------------------------------------------------- inputs
Versions == {<<0, 8>>, <<0, 9>>, <<0, 11>>}

Orderings(S) ==
    {q \in [1..Cardinality(S) -> S] : \A x \in S : \E i \in DOMAIN q : q[i] = x}

\* a child of the configuration block: (key, values[0])
ConfigChildren ==
    {<<"username", <<"u">>>>, <<"password", <<"p">>>>,
     <<"timeout", <<"3","0">>>>, <<"timeout", <<"s","o","o","n">>>>,
     <<"client", <<"x">>>>}

ConfigBlocks == UNION {[1..n -> ConfigChildren] : n \in 0..MaxChildren}

\* the sets of at most k catalog fields
RECURSIVE FieldSets(_)
FieldSets(k) ==
    IF k = 0 THEN {{}}
    ELSE FieldSets(k - 1) \cup
         {m \cup {f} : m \in FieldSets(k - 1), f \in CatalogFields}

MissingSets == FieldSets(MaxMissing)

TrackerStats ==
    UNION {[1..n -> [lastAnnounceSucceeded : BOOLEAN]] : n \in 0..MaxTrackers}

Torrents == [trackerStats : TrackerStats]

TorrentLists == UNION {[1..n -> Torrents] : n \in 0..MaxTorrents}

\* ---------------------------------------------------------------- the tick
\* get_stats, the test of line 126
NeedsInit(d) == "client" \notin DOMAIN d \/ d["client"] = NoneValue

\* Faulty variant of LazyInit: the tick clears the handle and leaves the
\* reconnect to the next tick.
LazyInitShutdownOnly(d, connected) ==
    IF NeedsInit(d)
    THEN [data |-> Shutdown(d), raised |-> "none",
          calls |-> <<Event("shutdown", 0, "ok")>>]
    ELSE [data |-> d, raised |-> "none", calls |-> <<>>]

\* Faulty variant of LazyInit: initialize() without the shutdown() before it.
LazyInitWithoutShutdown(d, connected) ==
    IF NeedsInit(d)
    THEN Initialize(d, HeldIds(d), connected)
    ELSE [data |-> d, raised |-> "none", calls |-> <<>>]

\* get_stats, lines 126-128
LazyInit(d, connected) ==
    IF NeedsInit(d)
    THEN LET i == Initialize(Shutdown(d), HeldIds(d), connected)
         IN  [data |-> i.data, raised |-> i.raised,
              calls |-> <<Event("shutdown", 0, "ok")>> \o i.calls]
    ELSE [data |-> d, raised |-> "none", calls |-> <<>>]

\* Faulty variant of FetchFailed: the handler only returns.
FetchFailedKeepsHandle(d, cs, connected) ==
    [data |-> d, raised |-> "none",
     calls |-> cs \o <<Event("session_stats", d["client"].id,
                             "TransmissionError")>>]

\* get_stats, lines 132-135: the handler of a failed session_stats()
FetchFailed(d, cs, connected) ==
    LET h == d["client"].id
        i == Initialize(Shutdown(d), {h}, connected)
    IN  [data |-> i.data, raised |-> i.raised,
         calls |-> cs \o <<Event("session_stats", h, "TransmissionError"),
                           Event("shutdown", 0, "ok")>> \o i.calls]

Sample(type_instance, value) ==
    [plugin |-> PLUGIN_NAME, type |-> "gauge",
     type_instance |-> type_instance, values |-> <<value>>]

\* the (category, metric) pairs in the order of the two loops of lines 137-138
RECURSIVE CatalogSequence(_)
CatalogSequence(items) ==
    IF items = <<>> THEN <<>>
    ELSE [i \in 1..Len(metrics[Head(items)]) |->
            <<Head(items), metrics[Head(items)][i]>>]
         \o CatalogSequence(Tail(items))

\* get_stats, lines 137-142: a sample is dispatched once its value is
\* resolved; the first exception of field_getter ends both loops.
DispatchCatalog(ver, stats, fields) ==
    LET value == [i \in 1..Len(fields) |->
                    field_getter(ver, stats, fields[i][2], fields[i][1])]
        failing == {i \in 1..Len(fields) : value[i].raised # "none"}
        stop == IF failing = {} THEN Len(fields) + 1
                ELSE CHOOSE i \in failing : \A j \in failing : i <= j
    IN  [dispatched |->
            <<>> \o [i \in 1..(stop - 1) |->
                        Sample(CatalogTypeInstance(fields[i][1], fields[i][2]),
                               value[i].value)],
         raised |-> IF failing = {} THEN "none" ELSE value[stop].raised]

\* Faulty variant of CountAnnounces: a torrent without tracker entries is
\* skipped.
RECURSIVE CountAnnouncesSkipping(_, _, _)
CountAnnouncesSkipping(ts, i, result) ==
    IF i > Len(ts) THEN [raised |-> "none", value |-> result]
    ELSE IF Len(ts[i].trackerStats) = 0
    THEN CountAnnouncesSkipping(ts, i + 1, result)
    ELSE LET tracker_stats == ts[i].trackerStats[1]
         IN  IF tracker_stats.lastAnnounceSucceeded
             THEN CountAnnouncesSkipping(ts, i + 1,
                     [result EXCEPT ![succeeded] = result[succeeded] + 1])
             ELSE CountAnnouncesSkipping(ts, i + 1,
                     [result EXCEPT ![failed] = result[failed] + 1])

\* Faulty variant of CountAnnounces: the last tracker entry of a torrent is
\* read instead of the first.
RECURSIVE CountAnnouncesLastEntry(_, _, _)
CountAnnouncesLastEntry(ts, i, result) ==
    IF i > Len(ts) THEN [raised |-> "none", value |-> result]
    ELSE IF Len(ts[i].trackerStats) = 0
    THEN [raised |-> "IndexError", value |-> result]
    ELSE LET tracker_stats == ts[i].trackerStats[Len(ts[i].trackerStats)]
         IN  IF tracker_stats.lastAnnounceSucceeded
             THEN CountAnnouncesLastEntry(ts, i + 1,
                     [result EXCEPT ![succeeded] = result[succeeded] + 1])
             ELSE CountAnnouncesLastEntry(ts, i + 1,
                     [result EXCEPT ![failed] = result[failed] + 1])

\* get_announce_stats, lines 155-161, from the i-th torrent on
RECURSIVE CountAnnounces(_, _, _)
CountAnnounces(ts, i, result) ==
    IF i > Len(ts) THEN [raised |-> "none", value |-> result]
    ELSE IF Len(ts[i].trackerStats) = 0
    THEN [raised |-> "IndexError", value |-> result]
    ELSE LET tracker_stats == ts[i].trackerStats[1]
         IN  IF tracker_stats.lastAnnounceSucceeded
             THEN CountAnnounces(ts, i + 1,
                     [result EXCEPT ![succeeded] = result[succeeded] + 1])
             ELSE CountAnnounces(ts, i + 1,
                     [result EXCEPT ![failed] = result[failed] + 1])

\* get_announce_stats once get_torrents() has returned `ts`
get_announce_stats(ts) ==
    CountAnnounces(ts, 1, [name \in {succeeded, failed} |-> 0])

\* Faulty variant of DispatchAnnounce: a counter that is zero is not dispatched.
DispatchAnnounceNonZero(items, announce_stats) ==
    SelectSeq([i \in 1..Len(items) |->
                  Sample(AnnounceTypeInstance(items[i]), announce_stats[items[i]])],
              LAMBDA s : s.values[1] # 0)

\* get_stats, lines 145-149
DispatchAnnounce(items, announce_stats) ==
    [i \in 1..Len(items) |->
        Sample(AnnounceTypeInstance(items[i]), announce_stats[items[i]])]

\* The catalog pass depends on the library version, the iteration order and
\* the snapshot alone; it is tabulated once for all of them.
CatalogPass ==
    [v \in Versions |->
        [items \in Orderings(Categories) |->
            [ms \in MissingSets |->
                DispatchCatalog(v, Snapshot(v, ms), CatalogSequence(items))]
            @@ <<>>]
        @@ <<>>]
    @@ <<>>

\* what a callback leaves behind
Return(o, d, r, cs, ds, ts) ==
    /\ op' = o
    /\ data' = d
    /\ raised' = r
    /\ calls' = cs
    /\ dispatched' = ds
    /\ torrents' = ts
    /\ reinit' = IF o = "initialize" THEN (IF reinit = 2 THEN 3 ELSE 1)
                 ELSE IF o = "shutdown" /\ reinit \in {1, 3} THEN 2
                 ELSE 0
    /\ UNCHANGED <<client_version, metrics_items, announce_items, input, output>>

\* ---------------------------------------------------------------- callbacks
Init ==
    /\ data = [k \in {} |-> NoneValue]
    /\ client_version \in Versions
    /\ metrics_items \in Orderings(Categories)
    /\ announce_items \in Orderings({succeeded, failed})
    /\ op = "none"
    /\ raised = "none"
    /\ calls = <<>>
    /\ dispatched = <<>>
    /\ torrents = <<>>
    /\ reinit = 0
    /\ input = <<>>
    /\ output = <<>>

\* config(), lines 58-59
RECURSIVE ApplyConfig(_, _)
ApplyConfig(d, children) ==
    IF children = <<>> THEN d
    ELSE ApplyConfig(Put(d, Head(children)[1], Str(Head(children)[2])),
                     Tail(children))

config ==
    \E children \in ConfigBlocks :
        Return("config", ApplyConfig(data, children), "none", <<>>, <<>>, <<>>)

initialize ==
    \E connected \in BOOLEAN :
        LET i == Initialize(data, HeldIds(data), connected)
        IN  Return("initialize", i.data, i.raised, i.calls, <<>>, <<>>)

shutdown ==
    Return("shutdown", Shutdown(data), "none", <<>>, <<>>, <<>>)

\* get_stats, lines 137-149, once session_stats() has returned.  `listed` is
\* the outcome of get_torrents() (FALSE: raises TransmissionError).
Emit(d, cs, ms, listed, ts) ==
    LET h == d["client"].id
        fetched == cs \o <<Event("session_stats", h, "ok")>>
        core == CatalogPass[client_version][metrics_items][ms]
    IN  IF core.raised # "none"
        THEN Return("get_stats", d, core.raised, fetched, core.dispatched, <<>>)
        ELSE IF ~listed
        THEN Return("get_stats", d, "TransmissionError",
                    fetched \o <<Event("get_torrents", h, "TransmissionError")>>,
                    core.dispatched, <<>>)
        ELSE LET announce_stats == get_announce_stats(ts)
                 all == fetched \o <<Event("get_torrents", h, "ok")>>
             IN  IF announce_stats.raised # "none"
                 THEN Return("get_stats", d, announce_stats.raised, all,
                             core.dispatched, ts)
                 ELSE Return("get_stats", d, "none", all,
                             core.dispatched \o
                             DispatchAnnounce(announce_items, announce_stats.value),
                             ts)

\* get_stats: the inputs are the outcomes of the calls it makes, each drawn
\* where the code makes the call.
get_stats ==
    \E connected \in (IF NeedsInit(data) THEN BOOLEAN ELSE {TRUE}) :
        LET s == LazyInit(data, connected)
        IN  IF s.raised # "none"
            THEN Return("get_stats", s.data, s.raised, s.calls, <<>>, <<>>)
            ELSE IF s.data["client"].type # "Client"
            THEN Return("get_stats", s.data, "AttributeError", s.calls, <<>>, <<>>)
            ELSE \E answered \in BOOLEAN :
                IF ~answered
                THEN \E reconnected \in BOOLEAN :
                        LET f == FetchFailed(s.data, s.calls, reconnected)
                        IN  Return("get_stats", f.data, f.raised, f.calls,
                                   <<>>, <<>>)
                ELSE \E ms \in MissingSets :
                        IF ms # {}
                        THEN Emit(s.data, s.calls, ms, TRUE, <<>>)
                        ELSE \E listed \in BOOLEAN :
                                \E ts \in (IF listed THEN TorrentLists ELSE {<<>>}) :
                                    Emit(s.data, s.calls, ms, listed, ts)

Next == config \/ initialize \/ shutdown \/ get_stats

Spec == Init /\ [][Next]_vars

\* ---------------------------------------------------------------- properties
\* the last callback made `call` and it ended with `result`
Called(call, result) ==
    \E i \in DOMAIN calls : calls[i].call = call /\ calls[i].result = result

\* the last callback was a tick that found no handle (line 126) and so began
\* with shutdown(); initialize()
StartedWithoutHandle ==
    op = "get_stats" /\ calls # <<>> /\ calls[1].call = "shutdown"

\* ... and the connect of that initialize() failed
LazyConnectFailed ==
    /\ StartedWithoutHandle
    /\ Len(calls) >= 2
    /\ calls[2].call = "Client"
    /\ calls[2].result = "TransmissionError"

IsAnnounceSample(s) ==
    /\ Len(s.type_instance) > Len(announce)
    /\ SubSeq(s.type_instance, 1, Len(announce) + 1) = announce \o <<".">>

CatalogCount ==
    Cardinality({i \in DOMAIN dispatched : ~IsAnnounceSample(dispatched[i])})

AnnounceCount ==
    Cardinality({i \in DOMAIN dispatched : IsAnnounceSample(dispatched[i])})

HasCredentials(d) == "username" \in DOMAIN d /\ "password" \in DOMAIN d

TimeoutParses(d) == ParseInt(Get(d, "timeout", DefaultTimeout)).raised = "none"

\* C1: a tick that starts with no handle and whose reconnect fails with a
\* connection error dispatches no sample at all.
C1_NoSamplesWhenReconnectFails ==
    LazyConnectFailed => dispatched = <<>>

C1_Witness ==
    LazyConnectFailed /\ HasCredentials(data) /\ data["client"] = NoneValue

\* C2: whenever a connect, the session-statistics fetch or the torrent-list
\* fetch of a tick fails with a connection error, the tick returns normally.
C2_UnreachableNeverPropagates ==
    (op = "get_stats" /\ \E i \in DOMAIN calls : calls[i].result = "TransmissionError")
        => raised = "none"

\* C3: a tick with a handle whose session-statistics fetch succeeds, whose
\* catalog fields all resolve and whose torrent list is fetched with a first
\* tracker entry in every torrent dispatches 16 catalog samples and 2 announce
\* samples, 18 in all.
C3_FullTickDispatches18 ==
    (/\ op = "get_stats"
     /\ Called("session_stats", "ok")
     /\ Called("get_torrents", "ok")
     /\ \A i \in DOMAIN torrents : torrents[i].trackerStats # <<>>)
        => /\ raised = "none"
           /\ Len(dispatched) = 18
           /\ CatalogCount = 16
           /\ AnnounceCount = 2

C3_Witness ==
    /\ op = "get_stats"
    /\ StartedWithoutHandle
    /\ Called("get_torrents", "ok")
    /\ torrents # <<>>
    /\ \A i \in DOMAIN torrents : torrents[i].trackerStats # <<>>
    /\ Len(dispatched) = 18

\* C4: the catalog samples of a tick are all 16 or none, never a strict
\* subset.
C4_CatalogAllOrNothing ==
    op = "get_stats" => CatalogCount \in {0, 16}

\* C5: when get_torrents fails with a connection error after the
\* session-statistics fetch succeeded, the 16 catalog samples are dispatched,
\* no announce sample is, and the tick completes without an error.
C5_AnnounceOmittedOnTorrentFailure ==
    (/\ op = "get_stats"
     /\ Called("session_stats", "ok")
     /\ Called("get_torrents", "TransmissionError"))
        => /\ CatalogCount = 16
           /\ AnnounceCount = 0
           /\ raised = "none"

\* C6: once the session-statistics fetch of a tick has succeeded, a
\* connection error later in that tick neither fails the tick nor leaves it
\* with a partial set of the 18 samples.
C6_NoFailureAfterFetch ==
    (/\ op = "get_stats"
     /\ \E i \in DOMAIN calls :
            /\ calls[i].call = "session_stats" /\ calls[i].result = "ok"
            /\ \E j \in DOMAIN calls : j > i /\ calls[j].result = "TransmissionError")
        => raised = "none" /\ Len(dispatched) \in {0, 18}

\* data['client'] after initialize() is None when the connect failed and the
\* object the connect returned when it succeeded
HandleConsistent ==
    /\ "client" \in DOMAIN data
    /\ Len(calls) = 1
    /\ calls[1].call = "Client"
    /\ \/ calls[1].result = "TransmissionError" /\ data["client"] = NoneValue
       \/ calls[1].result = "ok" /\ data["client"] = ClientObject(calls[1].h)

\* under `valid`, no callback of initialize(); shutdown(); initialize() raises
\* and the sequence ends with a consistent handle
Reinitializes(valid) ==
    valid => /\ reinit >= 1 => raised = "none"
             /\ reinit = 3 => HandleConsistent

\* C7, as stated: with both credentials configured, initialize(); shutdown();
\* initialize() never raises and leaves data['client'] present and either
\* None or the handle of the last connect.
C7_ReinitializeWithCredentials ==
    Reinitializes(HasCredentials(data))

\* C7, amended: with both credentials configured and the timeout absent or
\* the decimal text of an integer, initialize(); shutdown(); initialize()
\* never raises and leaves data['client'] present and either None or the
\* handle of the last connect.
C7_ReinitializeWithValidConfiguration ==
    Reinitializes(HasCredentials(data) /\ TimeoutParses(data))

C7_Witness ==
    /\ reinit = 3
    /\ HasCredentials(data)
    /\ "timeout" \in DOMAIN data
    /\ TimeoutParses(data)
    /\ data["client"].type = "Client"

\* C8: while 'username' or 'password' is missing, every initialize() raises
\* KeyError before any connect and leaves `data` as it was, and so does the
\* initialize() a tick without a handle makes after its shutdown().
C8_MissingCredentialFailsInitialize ==
    [][/\ (op' = "initialize" /\ ~HasCredentials(data))
            => /\ raised' = "KeyError"
               /\ calls' = <<>>
               /\ data' = data
       /\ (op' = "get_stats" /\ ~HasCredentials(data) /\ NeedsInit(data))
            => /\ raised' = "KeyError"
               /\ calls' = <<Event("shutdown", 0, "ok")>>
               /\ data' = Shutdown(data)
               /\ dispatched' = <<>>]_vars

C8_Witness ==
    /\ op = "get_stats"
    /\ raised = "KeyError"
    /\ calls = <<Event("shutdown", 0, "ok")>>
    /\ "username" \in DOMAIN data
    /\ "password" \notin DOMAIN data

\* C9: config() leaves the entry data['client'] as it was, whatever the keys
\* and values of its children.
C9_ConfigLeavesHandle ==
    [][op' = "config"
        => /\ ("client" \in DOMAIN data') = ("client" \in DOMAIN data)
           /\ "client" \in DOMAIN data => data'["client"] = data["client"]]_vars

\* no two catalog entries have the same type-instance string, and none has
\* the string of an announce sample
CatalogNamesDistinct ==
    /\ \A f, g \in CatalogFields :
          f # g => CatalogTypeInstance(f[1], f[2]) # CatalogTypeInstance(g[1], g[2])
    /\ \A f \in CatalogFields : \A name \in {succeeded, failed} :
          CatalogTypeInstance(f[1], f[2]) # AnnounceTypeInstance(name)

\* C10: the samples one tick dispatches have pairwise distinct type-instance
\* strings; no two catalog entries share a string and none has the string of
\* an announce sample.
C10_TypeInstancesDistinct ==
    /\ \A i, j \in DOMAIN dispatched :
          i # j => dispatched[i].type_instance # dispatched[j].type_instance
    /\ CatalogNamesDistinct

C10_Witness ==
    op = "get_stats" /\ Len(dispatched) = 18 /\ CatalogCount = 16


\* ---------------------------------------------------------------- functions
\* The functions of the module applied on their own: the argument is drawn
\* when the run starts, the callbacks' state stays as the import leaves it.
Idle ==
    /\ data = [k \in {} |-> NoneValue]
    /\ client_version = ModernSince
    /\ metrics_items = <<general, cumulative, current>>
    /\ announce_items = <<succeeded, failed>>
    /\ op = "none"
    /\ raised = "none"
    /\ calls = <<>>
    /\ dispatched = <<>>
    /\ torrents = <<>>
    /\ reinit = 0

\* the application of a function to the argument drawn, given what it returns
Apply(returned) ==
    /\ output = <<>>
    /\ output' = <<returned>>
    /\ UNCHANGED <<data, client_version, metrics_items, announce_items, op,
                   raised, calls, dispatched, torrents, reinit, input>>

Applied == Len(output) = 1

\* what get_torrents() may return to get_announce_stats
AnnounceInputs ==
    LET entries == UNION {[1..n -> [lastAnnounceSucceeded : BOOLEAN]] :
                            n \in 0..AnnounceMaxTrackers}
    IN  UNION {[1..n -> [trackerStats : entries]] : n \in 0..AnnounceMaxTorrents}

InitAnnounce == Idle /\ input \in AnnounceInputs /\ output = <<>>

ApplyAnnounce == Apply(get_announce_stats(input))

SpecAnnounce == InitAnnounce /\ [][ApplyAnnounce]_vars

\* the torrents of the argument whose first tracker entry says the last
\* announce succeeded
FirstSucceeded ==
    {i \in DOMAIN input : input[i].trackerStats[1].lastAnnounceSucceeded}

\* C11: over a torrent list in which every torrent has a first tracker entry,
\* get_announce_stats returns succeeded = the number of torrents whose first
\* entry has lastAnnounceSucceeded true and failed = the number of the others
\* (so the two add up to the length of the list, entries after the first do
\* not count, and the empty list gives 0 and 0).
C11_AnnounceCounts ==
    (Applied /\ \A i \in DOMAIN input : input[i].trackerStats # <<>>)
        => /\ output[1].raised = "none"
           /\ output[1].value[succeeded] = Cardinality(FirstSucceeded)
           /\ output[1].value[failed] = Len(input) - Cardinality(FirstSucceeded)
           /\ DOMAIN output[1].value = {succeeded, failed}

C11_Witness ==
    /\ Applied
    /\ Len(input) = 3
    /\ \A i \in DOMAIN input : Len(input[i].trackerStats) = 2
    /\ input[1].trackerStats[1].lastAnnounceSucceeded
    /\ ~input[1].trackerStats[2].lastAnnounceSucceeded
    /\ input[2].trackerStats[1].lastAnnounceSucceeded
    /\ ~input[3].trackerStats[1].lastAnnounceSucceeded
    /\ input[3].trackerStats[2].lastAnnounceSucceeded
    /\ output[1].value[succeeded] = 2
    /\ output[1].value[failed] = 1


\* the strings snake_case is applied to: every string of the characters
\* below up to the bound, and the metric names of the catalog
SnakeAlphabet == {"a", "B", "S", "_"}

SnakeInputs ==
    UNION {[1..n -> SnakeAlphabet] : n \in 0..SnakeMaxLen}
    \cup {f[2] : f \in CatalogFields}

InitSnake == Idle /\ input \in SnakeInputs /\ output = <<>>

ApplySnake == Apply(snake_case(input))

SpecSnake == InitSnake /\ [][ApplySnake]_vars

\* position i of the argument begins a maximal run of capitals
StartsRun(i) == IsUpper(input[i]) /\ (i = 1 \/ ~IsUpper(input[i - 1]))

\* the number of maximal runs of capitals that begin at or before position i
RunsUpTo(i) == Cardinality({j \in 1..i : StartsRun(j)})

\* C12: snake_case puts one '_' in front of each maximal run of capitals and
\* lowercases everything: the i-th character of the argument, lowercased, is
\* at position i + (runs begun up to i) of the result, with '_' just before
\* it when it begins a run, and nothing else is in the result; so
\* 'downloadSpeed' gives 'download_speed', 'filesAdded' gives 'files_added'
\* and a string without a capital is returned unchanged.
C12_SnakeCase ==
    Applied
        => /\ Len(output[1]) = Len(input) + RunsUpTo(Len(input))
           /\ \A i \in 1..Len(input) :
                /\ output[1][i + RunsUpTo(i)] = ToLower(input[i])
                /\ StartsRun(i) => output[1][i + RunsUpTo(i) - 1] = "_"
           /\ input = downloadSpeed
                => output[1] = <<"d","o","w","n","l","o","a","d","_",
                                 "s","p","e","e","d">>
           /\ input = filesAdded
                => output[1] = <<"f","i","l","e","s","_","a","d","d","e","d">>
           /\ (\A i \in 1..Len(input) : ~IsUpper(input[i])) => output[1] = input

C12_Witness ==
    /\ Applied
    /\ input = <<"a", "B", "S", "a">>
    /\ output[1] = <<"a", "_", "b", "s", "a">>


\* field_getter applied to the same statistics in both shapes: a catalog
\* field, the fields the daemon left out, a library version from 0.9 on and
\* one before it
GetterInputs ==
    [field : CatalogFields,
     absent : MissingSets,
     modern : {v \in Versions : VersionGE(v, ModernSince)},
     legacy : {v \in Versions : ~VersionGE(v, ModernSince)}]

InitGetter == Idle /\ input \in GetterInputs /\ output = <<>>

ApplyGetter ==
    Apply([modern |-> field_getter(input.modern,
                                   Snapshot(input.modern, input.absent),
                                   input.field[2], input.field[1]),
           legacy |-> field_getter(input.legacy,
                                   Snapshot(input.legacy, input.absent),
                                   input.field[2], input.field[1])])

SpecGetter == InitGetter /\ [][ApplyGetter]_vars

Connects == {i \in DOMAIN calls : calls[i].call = "Client"}

\* the calls of the last callback that are failed session_stats() calls
FailedFetches ==
    {i \in DOMAIN calls :
        calls[i].call = "session_stats" /\ calls[i].result = "TransmissionError"}

\* C14: a tick whose session_stats() fails with a connection error calls
\* shutdown(), then initialize() once (one connect, none when the timeout
\* does not parse), does not call session_stats() again and dispatches
\* nothing; it ends with data['client'] None or the handle that connect
\* returned, which is not the handle whose fetch failed.
C14_FailedFetchReconnectsOnce ==
    (op = "get_stats" /\ FailedFetches # {})
        => \A i \in FailedFetches :
            /\ dispatched = <<>>
            /\ {j \in DOMAIN calls : calls[j].call = "session_stats"} = {i}
            /\ Len(calls) > i /\ calls[i + 1].call = "shutdown"
            /\ {j \in Connects : j > i}
                  = (IF TimeoutParses(data) THEN {i + 2} ELSE {})
            /\ "client" \in DOMAIN data
            /\ \/ data["client"] = NoneValue
               \/ /\ data["client"].type = "Client"
                  /\ data["client"].id # calls[i].h
                  /\ calls[i + 2] = Event("Client", data["client"].id, "ok")

C14_Witness ==
    /\ op = "get_stats"
    /\ FailedFetches # {}
    /\ StartedWithoutHandle
    /\ data["client"].type = "Client"
    /\ Len(calls) = 5

\* C15: after a tick whose get_torrents() failed with a connection error,
\* the handle it was called on is no longer held.
C15_TorrentFailureDiscardsHandle ==
    (op = "get_stats" /\ Called("get_torrents", "TransmissionError"))
        => \A i \in DOMAIN calls :
              calls[i].call = "get_torrents"
                => ~(data["client"].type = "Client"
                     /\ data["client"].id = calls[i].h)

\* C16: when a torrent of the list has no tracker entry, get_announce_stats
\* raises and the tick dispatches no announce sample.
C16_NoTrackerEntryRaises ==
    (/\ op = "get_stats"
     /\ Called("get_torrents", "ok")
     /\ \E i \in DOMAIN torrents : torrents[i].trackerStats = <<>>)
        => raised = "IndexError" /\ AnnounceCount = 0

C16_Witness ==
    /\ op = "get_stats"
    /\ Called("get_torrents", "ok")
    /\ torrents # <<>>
    /\ torrents[Len(torrents)].trackerStats = <<>>
    /\ raised = "IndexError"
    /\ CatalogCount = 16

\* the catalog in the order general, cumulative, current
FixedOrder == CatalogSequence(<<general, cumulative, current>>)

\* C17: the catalog samples of a tick are dispatched in the order general,
\* cumulative, current, each category in its list order, and the announce
\* samples only after all of them.
C17_FixedDispatchOrder ==
    op = "get_stats"
        => \A i \in DOMAIN dispatched :
              IF i <= Len(FixedOrder)
              THEN dispatched[i].type_instance
                      = CatalogTypeInstance(FixedOrder[i][1], FixedOrder[i][2])
              ELSE IsAnnounceSample(dispatched[i])

\* the last callback was a tick that found data['client'] absent, None or a
\* handle, and every connect and fetch it made succeeded on well-formed
\* statistics and torrents
AllSucceeded ==
    /\ op = "get_stats"
    /\ calls # <<>>
    /\ \A i \in DOMAIN calls : calls[i].result = "ok"
    /\ ~(Called("session_stats", "ok")
         /\ raised \in {"KeyError", "AttributeError", "IndexError"})

\* under `valid`, a tick in which everything succeeds dispatches the 18
\* samples and keeps a handle, and a tick whose fetch failed and whose
\* reconnect succeeded leaves a handle for the next tick
Recovers(valid) ==
    valid => /\ AllSucceeded
                => /\ raised = "none"
                   /\ Len(dispatched) = 18
                   /\ data["client"].type = "Client"
             /\ (op = "get_stats" /\ FailedFetches # {} /\ Called("Client", "ok")
                 /\ calls[Len(calls)].result = "ok")
                => data["client"].type = "Client"

\* C18, as stated: with both credentials configured, once every connect and
\* fetch succeeds on well-formed data, a tick that starts with no handle
\* dispatches the 18 samples itself and at most one tick dispatches nothing
\* before every tick dispatches 18.
C18_RecoversWithCredentials ==
    Recovers(HasCredentials(data))

\* C18, amended: the same with both credentials configured and the timeout
\* absent or the decimal text of an integer.
C18_RecoversWithValidConfiguration ==
    Recovers(HasCredentials(data) /\ TimeoutParses(data))

C18_Witness ==
    /\ AllSucceeded
    /\ StartedWithoutHandle
    /\ HasCredentials(data)
    /\ "timeout" \in DOMAIN data
    /\ Len(dispatched) = 18

\* C19: a tick makes at most two connects, none when it starts with a handle
\* and its session_stats() succeeds, and each connect comes right after a
\* shutdown().
C19_ConnectsBoundedAndAfterShutdown ==
    op = "get_stats"
        => /\ Cardinality(Connects) <= 2
           /\ (calls # <<>> /\ calls[1] = Event("session_stats", calls[1].h, "ok"))
                => Connects = {}
           /\ \A i \in Connects : i > 1 /\ calls[i - 1].call = "shutdown"

C19_Witness ==
    /\ op = "get_stats"
    /\ Cardinality(Connects) = 2
    /\ FailedFetches # {}


====
